---- MODULE Spec2Model ----
(***************************************************************************)
(* Model of the embedding store: the JSONL record log                      *)
(* (embeddings/storage.rs), the service operations on it                   *)
(* (embeddings/service.rs: clear_data, compare_embeddings, save_embedding) *)
(* and the request handlers that call them (lib.rs).                       *)
(*                                                                         *)
(* Strings are sequences of characters, Option<T> is a sequence of length  *)
(* 0 (None) or 1 (Some).  The log file is a sequence of written chunks:    *)
(* the text of one serialized record, or the newline that writeln! adds.   *)
(***************************************************************************)
EXTENDS Integers, Sequences, FiniteSets, TLC

(* ------------------------------ bounds --------------------------------- *)
MaxLog == 2
MaxTopK == 1

(* ------------------------------ inputs --------------------------------- *)
None == <<>>
Some(x) == <<x>>

Texts == { <<"a">>, <<"a", ":", "u">> }
Categories == { <<"u">>, <<"u", ":", "u">> }
FilterCategories == Categories \cup { <<"U">> }
Models == { "m1", "m2" }
Vectors == { <<1, 0>>, <<0, 1>> }
QueryVectors == { <<1, 0>>, <<1, 1>> }
TopKs == { None } \cup { Some(k) : k \in 0..MaxTopK }
Filters == { None } \cup { Some(c) : c \in FilterCategories }

(* one chunk of the file: the text of a serialized record, or a newline *)
Body(r) == <<r>>
NL == <<>>

VARIABLES dirExists, otherEntries, fileExists, content, last, procs

vars == <<dirExists, otherEntries, fileExists, content, last, procs>>
fsvars == <<dirExists, otherEntries, fileExists, content>>

(* --------------------------- serialization ----------------------------- *)
(* serde_json::json!({...}) of one record                                  *)
record(text, embedding, model_name, embedding_type) ==
  [text |-> text, embedding |-> embedding, model |-> model_name,
   embedding_type |-> embedding_type]

(* str::lines(): the chunks between newlines; a last line without its      *)
(* newline is still a line, an empty tail after the last newline is not.   *)
RECURSIVE SplitLines(_, _, _)
SplitLines(c, i, cur) ==
  IF i > Len(c) THEN (IF cur = <<>> THEN <<>> ELSE <<cur>>)
  ELSE IF c[i] = NL THEN <<cur>> \o SplitLines(c, i + 1, <<>>)
  ELSE SplitLines(c, i + 1, Append(cur, c[i]))

lines(c) == SplitLines(c, 1, <<>>)

(* serde_json::from_str::<Value>(line): exactly one JSON document.  An     *)
(* empty line (EOF) and two documents glued together (trailing             *)
(* characters) are errors.                                                 *)
from_str_ok(line) == Len(line) = 1
from_str(line) == line[1][1]

RECURSIVE SelectSeqOk(_, _)
SelectSeqOk(ls, i) ==
  IF i > Len(ls) THEN <<>>
  ELSE (IF from_str_ok(ls[i]) THEN <<from_str(ls[i])>> ELSE <<>>)
       \o SelectSeqOk(ls, i + 1)

(* the entries of the log that parse, in log order *)
ParsedEntries(c) == SelectSeqOk(lines(c), 1)
AllLinesParse(c) == \A i \in 1..Len(lines(c)) : from_str_ok(lines(c)[i])

Key(e) == <<e.text, e.embedding_type>>

(* ----------------------------- storage.rs ------------------------------ *)
is_duplicate_skip_first(existing_entries, text, embedding_type) ==
  \E i \in 2..Len(existing_entries) :
      /\ existing_entries[i].text = text
      /\ existing_entries[i].embedding_type = embedding_type

is_duplicate_text_only(existing_entries, text, embedding_type) ==
  \E i \in 1..Len(existing_entries) : existing_entries[i].text = text

(* lines 24-27: any entry with this text and this embedding_type *)
is_duplicate(existing_entries, text, embedding_type) ==
  \E i \in 1..Len(existing_entries) :
      /\ existing_entries[i].text = text
      /\ existing_entries[i].embedding_type = embedding_type

(* OpenOptions::new().create(true).append(true).open(path): creates the    *)
(* file, never its parent directory.                                       *)
open_ok(dir) == dir

save_result_unchecked(dir, file, c, text, embedding_type) ==
  IF file /\ ~AllLinesParse(c) THEN "parse_error"
  ELSE IF ~open_ok(dir) THEN "io_error"
  ELSE "ok"

(* Outcome of save_embedding_to_jsonl run without interruption on the file *)
(* system <<dir, file, c>>.                                                *)
save_result(dir, file, c, text, embedding_type) ==
  IF file /\ ~AllLinesParse(c) THEN "parse_error"
  ELSE IF is_duplicate(IF file THEN ParsedEntries(c) ELSE <<>>, text, embedding_type)
       THEN "duplicate"
  ELSE IF ~open_ok(dir) THEN "io_error"
  ELSE "ok"

written_truncating(c, text, embedding, model_name, embedding_type) ==
  << Body(record(text, embedding, model_name, embedding_type)), NL >>

(* writeln!(file, "{}", record.to_string()) on the file opened for append *)
written(c, text, embedding, model_name, embedding_type) ==
  c \o << Body(record(text, embedding, model_name, embedding_type)), NL >>

(* ------------------------- utils/similarity.rs ------------------------- *)
(* A similarity is the real number num / sqrt(den), den > 0, kept exact.   *)
dot(a, b) == a[1] * b[1] + a[2] * b[2]

cosine_similarity(a, b) ==
  IF dot(a, a) = 0 \/ dot(b, b) = 0 THEN [num |-> 0, den |-> 1]
  ELSE [num |-> dot(a, b), den |-> dot(a, a) * dot(b, b)]

(* s < t on the reals *)
SimLess(s, t) ==
  IF s.num >= 0 /\ t.num >= 0 THEN s.num * s.num * t.den < t.num * t.num * s.den
  ELSE IF s.num < 0 /\ t.num < 0 THEN s.num * s.num * t.den > t.num * t.num * s.den
  ELSE s.num < t.num

(* ----------------------------- service.rs ------------------------------ *)
(* format!("{}:{}", stored_text, stored_type) *)
seen_key(stored_text, stored_type) == stored_text \o <<":">> \o stored_type

(* serde_json::from_value::<Vec<f64>>(entry["embedding"]) *)
embedding_ok(entry) == \A i \in 1..Len(entry.embedding) : entry.embedding[i] \in Int

(* "Skip self-comparison": the stored text is the query text and the       *)
(* stored type is the type asked for                                       *)
is_self(stored_text, stored_type, text, embedding_type) ==
  stored_text = text /\ embedding_type = Some(stored_type)

ToLower(ch) == IF ch = "U" THEN "u" ELSE IF ch = "A" THEN "a" ELSE ch
Lower(str) == [i \in 1..Len(str) |-> ToLower(str[i])]

type_mismatch_ignore_case(stored_type, embedding_type) ==
  embedding_type # None /\ Lower(stored_type) # Lower(embedding_type[1])

(* "Apply type filter if specified": stored_type != target_type *)
type_mismatch(stored_type, embedding_type) ==
  embedding_type # None /\ stored_type # embedding_type[1]

(* the loop over the entries: de-duplication, self-match, type filter *)
RECURSIVE process_entries(_, _, _, _, _, _, _, _)
process_entries(entries, i, seen, similarities, text, embedding, include_embeddings, embedding_type) ==
  IF i > Len(entries) THEN similarities
  ELSE
    LET entry == entries[i]
        stored_text == entry.text
        stored_type == entry.embedding_type
        key == seen_key(stored_text, stored_type)
        skip == process_entries(entries, i + 1, seen \cup {key}, similarities,
                                text, embedding, include_embeddings, embedding_type)
    IN  IF key \in seen THEN skip
        ELSE IF is_self(stored_text, stored_type, text, embedding_type) THEN skip
        ELSE IF type_mismatch(stored_type, embedding_type) THEN skip
        ELSE IF ~embedding_ok(entry) THEN skip
        ELSE process_entries(entries, i + 1, seen \cup {key},
               Append(similarities,
                      [text |-> stored_text,
                       similarity |-> cosine_similarity(embedding, entry.embedding),
                       embedding |-> IF include_embeddings
                                     THEN Some(entry.embedding) ELSE None,
                       embedding_type |-> stored_type]),
               text, embedding, include_embeddings, embedding_type)

RECURSIVE insert_sorted_unstable(_, _)
insert_sorted_unstable(sorted, r) ==
  IF sorted = <<>> THEN <<r>>
  ELSE IF ~SimLess(r.similarity, sorted[Len(sorted)].similarity)
       THEN Append(insert_sorted_unstable(SubSeq(sorted, 1, Len(sorted) - 1), r),
                   sorted[Len(sorted)])
       ELSE Append(sorted, r)

(* similarities.sort_by(|a, b| b.similarity.partial_cmp(&a.similarity)):   *)
(* a stable sort, descending.                                              *)
RECURSIVE insert_sorted(_, _)
insert_sorted(sorted, r) ==
  IF sorted = <<>> THEN <<r>>
  ELSE IF SimLess(sorted[Len(sorted)].similarity, r.similarity)
       THEN Append(insert_sorted(SubSeq(sorted, 1, Len(sorted) - 1), r),
                   sorted[Len(sorted)])
       ELSE Append(sorted, r)

RECURSIVE sort_by(_)
sort_by(s) ==
  IF s = <<>> THEN <<>>
  ELSE insert_sorted(sort_by(SubSeq(s, 1, Len(s) - 1)), s[Len(s)])

(* similarities.truncate(k) when top_k is Some(k) *)
truncate(s, top_k) ==
  IF top_k = None THEN s
  ELSE SubSeq(s, 1, IF top_k[1] < Len(s) THEN top_k[1] ELSE Len(s))

(* the list compare_embeddings builds from the text it read *)
ranked(c, text, embedding, top_k, include_embeddings, embedding_type) ==
  truncate(sort_by(process_entries(ParsedEntries(c), 1, {}, <<>>, text, embedding,
                                   include_embeddings, embedding_type)),
           top_k)

compare_result_strict(file, c, text, embedding, top_k, include_embeddings, embedding_type) ==
  IF ~file THEN "not_found"
  ELSE IF ~AllLinesParse(c) THEN "parse_error"
  ELSE "ok"

(* the final check: an empty list without a type filter is an error *)
no_results(similarities, embedding_type) ==
  similarities = <<>> /\ embedding_type = None

compare_result(file, c, text, embedding, top_k, include_embeddings, embedding_type) ==
  IF ~file THEN "not_found"
  ELSE IF no_results(ranked(c, text, embedding, top_k, include_embeddings,
                            embedding_type), embedding_type)
       THEN "no_results"
  ELSE "ok"

(* ------------------------------- state --------------------------------- *)
Procs == {1, 2}

NoLast ==
  [op |-> "none", text |-> <<>>, category |-> <<>>, model |-> "", embedding |-> <<>>,
   top_k |-> None, include |-> FALSE, filter |-> None,
   res |-> "none", results |-> <<>>, stored |-> "none",
   pre |-> <<>>, preFile |-> FALSE, preDir |-> FALSE]

Idle ==
  [pc |-> "idle", text |-> <<>>, category |-> <<>>, model |-> "", embedding |-> <<>>,
   file_exists |-> FALSE, existing_entries |-> <<>>, res |-> "none"]

(* number of record texts written to the file so far *)
Bodies(c) == Cardinality({ i \in 1..Len(c) : c[i] # NL })

(* The service is a unit struct; the state is the data directory "data",   *)
(* whether it holds entries other than the log, and the log file.          *)
Init ==
  /\ dirExists \in BOOLEAN
  /\ otherEntries \in BOOLEAN
  /\ otherEntries => dirExists
  /\ fileExists = FALSE
  /\ content = <<>>
  /\ last = NoLast
  /\ procs = [p \in Procs |-> Idle]

(* ------------------------------- lib.rs -------------------------------- *)
(* e.to_string() of the error save_embedding returned, word by word:       *)
(* storage.rs line 30 for the duplicate, the io and serde_json texts else  *)
error_words(res) ==
  CASE res = "duplicate" -> <<"duplicate", "text", "entry", "for", "type">>
    [] res = "io_error" -> <<"No", "such", "file", "or", "directory">>
    [] res = "not_found" -> <<"No", "such", "file", "or", "directory">>
    [] res = "parse_error" -> <<"EOF", "while", "parsing", "a", "value">>
    [] OTHER -> <<>>

(* e.to_string().contains("duplicate") *)
contains(words, w) == \E i \in 1..Len(words) : words[i] = w

stored_any_error_false(res) == IF res = "ok" THEN "true" ELSE "false"

(* store_embedding, lines 102-111: Ok is stored, a duplicate error is not  *)
(* stored, any other error panics                                          *)
stored_of(res) ==
  IF res = "ok" THEN "true"
  ELSE IF contains(error_words(res), "duplicate") THEN "false"
  ELSE "panic"

serialize_null(r) ==
  [text |-> r.text, similarity |-> r.similarity,
   embedding |-> IF r.embedding = None THEN "null" ELSE r.embedding[1],
   embedding_type |-> r.embedding_type]

(* Json(CompareResponse { results }): one ComparisonResult as a JSON        *)
(* object; skip_serializing_if = "Option::is_none" leaves the key out      *)
serialize(r) ==
  IF r.embedding = None
  THEN [text |-> r.text, similarity |-> r.similarity,
        embedding_type |-> r.embedding_type]
  ELSE [text |-> r.text, similarity |-> r.similarity,
        embedding |-> r.embedding[1], embedding_type |-> r.embedding_type]

(* ------------------- operations run one at a time ---------------------- *)
(* EmbeddingService::save_embedding -> save_embedding_to_jsonl *)
save_embedding(text, embedding, model_name, embedding_type) ==
  LET res == save_result(dirExists, fileExists, content, text, embedding_type)
  IN  /\ last.op = "none"
      /\ Bodies(content) < MaxLog \/ res # "ok"
      /\ last' = [NoLast EXCEPT !.op = "save", !.text = text,
                    !.category = embedding_type, !.model = model_name,
                    !.embedding = embedding, !.res = res,
                    !.stored = stored_of(res),
                    !.pre = content, !.preFile = fileExists, !.preDir = dirExists]
      /\ IF res = "ok"
         THEN /\ fileExists' = TRUE
              /\ content' = written(content, text, embedding, model_name, embedding_type)
         ELSE UNCHANGED <<fileExists, content>>
      /\ UNCHANGED <<dirExists, otherEntries, procs>>

parent_empty_always(other) == TRUE

(* fs::read_dir(parent).count() == 0 once the log is gone *)
parent_empty(other) == ~other

remove_file_always(file) == TRUE

(* line 31: fs::metadata(&path).is_ok() guards the removal of the log *)
remove_file_called(file) == file

(* line 32: fs::remove_file(&path)? is an error when the file is absent;   *)
(* removing the empty parent directory cannot fail                         *)
clear_result(file) ==
  IF remove_file_called(file) /\ ~file THEN "io_error" ELSE "ok"

(* EmbeddingService::clear_data *)
clear_data ==
  LET res == clear_result(fileExists)
  IN  /\ last.op = "none"
      /\ IF res = "ok"
         THEN /\ fileExists' = FALSE
              /\ content' = <<>>
              /\ dirExists' = (dirExists /\ ~parent_empty(otherEntries))
         ELSE UNCHANGED <<fileExists, content, dirExists>>
      /\ last' = [NoLast EXCEPT !.op = "clear", !.res = res,
                    !.pre = content, !.preFile = fileExists, !.preDir = dirExists]
      /\ UNCHANGED <<otherEntries, procs>>

(* EmbeddingService::compare_embeddings *)
compare_embeddings(text, embedding, top_k, include_embeddings, embedding_type) ==
  LET res == compare_result(fileExists, content, text, embedding, top_k,
                            include_embeddings, embedding_type)
  IN  /\ last.op = "none"
      /\ last' = [NoLast EXCEPT !.op = "compare", !.text = text,
                    !.embedding = embedding, !.top_k = top_k,
                    !.include = include_embeddings, !.filter = embedding_type,
                    !.res = res,
                    !.results = IF res = "ok"
                                THEN ranked(content, text, embedding, top_k,
                                            include_embeddings, embedding_type)
                                ELSE <<>>,
                    !.pre = content, !.preFile = fileExists, !.preDir = dirExists]
      /\ UNCHANGED <<dirExists, otherEntries, fileExists, content, procs>>

Save ==
  \E text \in Texts, embedding \in Vectors, model_name \in Models,
     embedding_type \in Categories :
       save_embedding(text, embedding, model_name, embedding_type)

Clear == clear_data

Compare ==
  \E text \in Texts, embedding \in QueryVectors, top_k \in TopKs,
     include_embeddings \in BOOLEAN, embedding_type \in Filters :
       compare_embeddings(text, embedding, top_k, include_embeddings, embedding_type)

(* the handler hands its response to the caller and its locals are dropped *)
Respond ==
  /\ last.op # "none"
  /\ last' = NoLast
  /\ UNCHANGED <<dirExists, otherEntries, fileExists, content, procs>>

Next == Save \/ Clear \/ Compare \/ Respond

Spec == Init /\ [][Next]_vars

(* ---------------- concurrent store requests, step by step --------------- *)
InFlight == { q \in Procs : procs[q].pc \notin {"idle", "done"} }

Finish(p, res) == [procs[p] EXCEPT !.pc = "done", !.res = res]

(* store_embedding calls save_embedding (lib.rs); storage.rs line 13:      *)
(* Path::new(output_file).exists()                                         *)
c_exists(p) ==
  /\ procs[p].pc = "idle"
  /\ Bodies(content) + Cardinality(InFlight) < MaxLog
  /\ \E text \in Texts, embedding \in Vectors, model_name \in Models,
        embedding_type \in Categories :
       procs' = [procs EXCEPT ![p] =
                   [Idle EXCEPT !.pc = IF fileExists THEN "read" ELSE "open",
                                !.text = text, !.category = embedding_type,
                                !.model = model_name, !.embedding = embedding,
                                !.file_exists = fileExists]]
  /\ UNCHANGED <<fsvars, last>>

(* lines 17-31: read_to_string, parse every line, duplicate check *)
c_read(p) ==
  /\ procs[p].pc = "read"
  /\ procs' = [procs EXCEPT ![p] =
       IF ~fileExists THEN Finish(p, "not_found")
       ELSE IF ~AllLinesParse(content) THEN Finish(p, "parse_error")
       ELSE IF is_duplicate(ParsedEntries(content), procs[p].text, procs[p].category)
            THEN Finish(p, "duplicate")
       ELSE [procs[p] EXCEPT !.pc = "open",
                             !.existing_entries = ParsedEntries(content)]]
  /\ UNCHANGED <<fsvars, last>>

(* lines 40-43: open for append, creating the file *)
c_open(p) ==
  /\ procs[p].pc = "open"
  /\ IF open_ok(dirExists)
     THEN /\ fileExists' = TRUE
          /\ procs' = [procs EXCEPT ![p].pc = "write"]
     ELSE /\ UNCHANGED fileExists
          /\ procs' = [procs EXCEPT ![p] = Finish(p, "io_error")]
  /\ UNCHANGED <<dirExists, otherEntries, content, last>>

(* line 45: writeln! writes the record text ... *)
c_write(p) ==
  /\ procs[p].pc = "write"
  /\ content' = Append(content, Body(record(procs[p].text, procs[p].embedding,
                                            procs[p].model, procs[p].category)))
  /\ procs' = [procs EXCEPT ![p].pc = "newline"]
  /\ UNCHANGED <<dirExists, otherEntries, fileExists, last>>

(* ... and then the newline, in a second write *)
c_newline(p) ==
  /\ procs[p].pc = "newline"
  /\ content' = Append(content, NL)
  /\ procs' = [procs EXCEPT ![p] = Finish(p, "ok")]
  /\ UNCHANGED <<dirExists, otherEntries, fileExists, last>>

(* the handler returns its response *)
c_respond(p) ==
  /\ procs[p].pc = "done"
  /\ procs' = [procs EXCEPT ![p] = Idle]
  /\ UNCHANGED <<fsvars, last>>

NextConc ==
  \E p \in Procs :
    c_exists(p) \/ c_read(p) \/ c_open(p) \/ c_write(p) \/ c_newline(p) \/ c_respond(p)

SpecConc == Init /\ [][NextConc]_vars

(* ------- compare requests between concurrent store requests ----------- *)
AllIdle == \A p \in Procs : procs[p].pc = "idle"

(* a compare request for the whole list, vectors included *)
CompareRead ==
  \E text \in Texts, embedding \in QueryVectors, embedding_type \in Filters :
    compare_embeddings(text, embedding, None, TRUE, embedding_type)

(* the store requests interleave as in SpecConc; in between, at a moment   *)
(* when no store request is in progress, a compare request or one more     *)
(* store request is served whole                                           *)
NextRead ==
  \/ last.op = "none" /\ NextConc
  \/ AllIdle /\ CompareRead
  \/ AllIdle /\ Save
  \/ Respond

SpecRead == Init /\ [][NextRead]_vars

(* --------- compare requests during one store request ------------------- *)
(* One store request steps through storage.rs while compare requests are   *)
(* served.  compare_embeddings touches the file system once, in            *)
(* read_to_string (service.rs line 95); the rest works on the text it      *)
(* read, so the whole call takes effect at that read.                      *)
Writer == 1

StoreStep ==
  \/ c_exists(Writer) \/ c_read(Writer) \/ c_open(Writer)
  \/ c_write(Writer) \/ c_newline(Writer) \/ c_respond(Writer)

NextOverlap ==
  \/ last.op = "none" /\ StoreStep
  \/ procs[Writer].pc # "idle" /\ CompareRead
  \/ Respond

SpecOverlap == Init /\ [][NextOverlap]_vars

(* ============================== properties ============================= *)
Entries == ParsedEntries(content)
PreEntries == ParsedEntries(last.pre)

UniqueKeys(es) ==
  \A i, j \in 1..Len(es) : i # j => Key(es[i]) # Key(es[j])

HasKey(es, text, embedding_type) ==
  \E i \in 1..Len(es) : Key(es[i]) = <<text, embedding_type>>

CountKey(es, text, embedding_type) ==
  Cardinality({ i \in 1..Len(es) : Key(es[i]) = <<text, embedding_type>> })

(* C1: with save and clear run one at a time, no two records of the log    *)
(* share a (text, category) pair, and a save whose pair is already in the  *)
(* log returns the duplicate error and leaves the log as it was.           *)
C1_Uniqueness ==
  /\ UniqueKeys(Entries)
  /\ (last.op = "save" /\ HasKey(PreEntries, last.text, last.category))
       => /\ last.res = "duplicate"
          /\ content = last.pre
          /\ fileExists = last.preFile

C1_Witness ==
  /\ last.op = "save"
  /\ last.res = "duplicate"
  /\ Len(Entries) = 2
  /\ Key(Entries[1]) = <<last.text, last.category>>

(* C2: two concurrent saves of the same (text, category): exactly one      *)
(* succeeds, the other is rejected as a duplicate, and the log holds one   *)
(* line for that key.                                                      *)
C2_Claim ==
  \A p, q \in Procs :
    ( /\ p # q
      /\ procs[p].pc = "done" /\ procs[q].pc = "done"
      /\ procs[p].text = procs[q].text /\ procs[p].category = procs[q].category
      /\ procs[p].res = "ok" )
    => /\ procs[q].res = "duplicate"
       /\ CountKey(Entries, procs[p].text, procs[p].category) = 1

(* C3: a save of a record that is not a duplicate succeeds when the log    *)
(* file or its directory is absent, and the log then holds the record.     *)
C3_Claim ==
  ( /\ last.op = "save"
    /\ ~HasKey(PreEntries, last.text, last.category)
    /\ (~last.preFile \/ ~last.preDir) )
  => /\ last.res = "ok"
     /\ HasKey(Entries, last.text, last.category)

(* C4: a second save of a stored (text, category) with another model or    *)
(* vector is rejected as a duplicate; the log keeps exactly one record of  *)
(* that key, with the first save's model and vector.                       *)
C4_Idempotence ==
  \A i \in 1..Len(PreEntries) :
    ( /\ last.op = "save"
      /\ Key(PreEntries[i]) = <<last.text, last.category>>
      /\ (PreEntries[i].model # last.model \/ PreEntries[i].embedding # last.embedding) )
    => /\ last.res = "duplicate"
       /\ CountKey(Entries, last.text, last.category) = 1
       /\ \E j \in 1..Len(Entries) : Entries[j] = PreEntries[i]

C4_Witness ==
  /\ last.op = "save"
  /\ last.res = "duplicate"
  /\ \E j \in 1..Len(Entries) :
       /\ Key(Entries[j]) = <<last.text, last.category>>
       /\ Entries[j].model # last.model
       /\ Entries[j].embedding # last.embedding

(* C5: a save is rejected as a duplicate only when text and category are   *)
(* both those of a stored record; saving a stored text under another       *)
(* category succeeds and both records are in the log afterwards.           *)
C5_CategoryIndependence ==
  last.op = "save" =>
    /\ (last.res = "duplicate") = HasKey(PreEntries, last.text, last.category)
    /\ \A i \in 1..Len(PreEntries) :
         ( /\ PreEntries[i].text = last.text
           /\ ~HasKey(PreEntries, last.text, last.category) )
         => /\ last.res = "ok"
            /\ HasKey(Entries, last.text, PreEntries[i].embedding_type)
            /\ HasKey(Entries, last.text, last.category)

C5_Witness ==
  /\ last.op = "save"
  /\ last.res = "ok"
  /\ \E i \in 1..Len(PreEntries) :
       /\ PreEntries[i].text = last.text
       /\ PreEntries[i].embedding_type # last.category
       /\ HasKey(Entries, last.text, PreEntries[i].embedding_type)
  /\ HasKey(Entries, last.text, last.category)

(* records of the log whose embedding reads back as a vector *)
Comparable(es) == { i \in 1..Len(es) : embedding_ok(es[i]) }

HasResult(rs, text, embedding_type) ==
  \E k \in 1..Len(rs) : rs[k].text = text /\ rs[k].embedding_type = embedding_type

(* C6: compare on an empty store without a type filter returns the         *)
(* no-results error; compare on a non-empty store with a filter that       *)
(* matches no record returns ok with an empty list.                        *)
C6_Claim ==
  last.op = "compare" =>
    /\ (PreEntries = <<>> /\ last.filter = None) => last.res = "no_results"
    /\ ( /\ PreEntries # <<>>
         /\ last.filter # None
         /\ \A i \in 1..Len(PreEntries) : PreEntries[i].embedding_type # last.filter[1] )
       => (last.res = "ok" /\ last.results = <<>>)

(* C7: when the log file does not exist, compare with a type filter        *)
(* returns ok with an empty list.                                          *)
C7_Claim ==
  (last.op = "compare" /\ ~last.preFile /\ last.filter # None)
    => (last.res = "ok" /\ last.results = <<>>)

(* C8: an unfiltered compare fails with the no-results error only when the *)
(* store holds no comparable record; with at least one comparable record   *)
(* it returns ok for every top_k, 0 included.                              *)
C8_Claim ==
  (last.op = "compare" /\ last.filter = None) =>
    /\ last.res = "no_results" => Comparable(PreEntries) = {}
    /\ Comparable(PreEntries) # {} => last.res = "ok"

(* C9: with a type filter C every result has category C exactly, and       *)
(* every result's (text, category) is that of a record in the log.         *)
C9_FilterCorrectness ==
  (last.op = "compare" /\ last.filter # None) =>
    \A k \in 1..Len(last.results) :
      /\ last.results[k].embedding_type = last.filter[1]
      /\ HasKey(Entries, last.results[k].text, last.results[k].embedding_type)

C9_Witness ==
  /\ last.op = "compare"
  /\ last.filter = Some(<<"u">>)
  /\ Len(last.results) = 1
  /\ \E i \in 1..Len(Entries) : Entries[i].embedding_type # <<"u">>

(* C10: compare without filter and without top_k returns exactly one       *)
(* result for each record of the log.                                      *)
C10_Claim ==
  (last.op = "compare" /\ last.filter = None /\ last.top_k = None /\ last.preFile) =>
    /\ Len(last.results) = Len(PreEntries)
    /\ \A i \in 1..Len(PreEntries) :
         HasResult(last.results, PreEntries[i].text, PreEntries[i].embedding_type)

(* the records rank has to consider: the first line of each               *)
(* (text, category), not the query's own record, of the category asked for *)
FirstOfKey(es, i) == \A j \in 1..(i - 1) : Key(es[j]) # Key(es[i])

Survives(es, i, text, filter) ==
  /\ FirstOfKey(es, i)
  /\ ~(es[i].text = text /\ filter = Some(es[i].embedding_type))
  /\ (filter = None \/ filter = Some(es[i].embedding_type))
  /\ embedding_ok(es[i])

Survivors(es, text, filter) == { i \in 1..Len(es) : Survives(es, i, text, filter) }

Min(a, b) == IF a < b THEN a ELSE b

(* C11: with top_k = k the returned list has min(k, number of surviving    *)
(* candidates) entries and no cut candidate is more similar than a         *)
(* returned one; without top_k every surviving candidate is returned.      *)
C11_Claim ==
  (last.op = "compare" /\ last.res = "ok") =>
    LET S == Survivors(PreEntries, last.text, last.filter)
    IN  /\ Len(last.results) = IF last.top_k = None THEN Cardinality(S)
                               ELSE Min(last.top_k[1], Cardinality(S))
        /\ \A i \in S :
             ~HasResult(last.results, PreEntries[i].text, PreEntries[i].embedding_type)
             => \A k \in 1..Len(last.results) :
                  ~SimLess(last.results[k].similarity,
                           cosine_similarity(last.embedding, PreEntries[i].embedding))

SimEq(s, t) == ~SimLess(s, t) /\ ~SimLess(t, s)

(* position in the log of the first line with a result's (text, category) *)
LogIndex(es, r) ==
  CHOOSE i \in 1..Len(es) :
    Key(es[i]) = <<r.text, r.embedding_type>> /\ FirstOfKey(es, i)

(* C12: the returned list is sorted by similarity, descending, and results *)
(* of equal similarity keep the order their records have in the log.       *)
C12_Ordering ==
  last.op = "compare" =>
    \A k, l \in 1..Len(last.results) :
      k < l =>
        /\ ~SimLess(last.results[k].similarity, last.results[l].similarity)
        /\ SimEq(last.results[k].similarity, last.results[l].similarity)
           => LogIndex(PreEntries, last.results[k]) < LogIndex(PreEntries, last.results[l])

C12_Witness ==
  /\ last.op = "compare"
  /\ Len(last.results) = 2
  /\ SimEq(last.results[1].similarity, last.results[2].similarity)
  /\ last.results[1].embedding # last.results[2].embedding

C12_WitnessReordered ==
  /\ last.op = "compare"
  /\ Len(last.results) = 2
  /\ LogIndex(PreEntries, last.results[1]) > LogIndex(PreEntries, last.results[2])

(* C13: clear returns ok whether the log exists, was already cleared or    *)
(* was never created; after it the log is absent and reads as empty, and   *)
(* it stays absent until a save succeeds.                                  *)
C13_ClearIdempotence ==
  /\ last.op = "clear"
       => (last.res = "ok" /\ ~fileExists /\ ParsedEntries(content) = <<>>)
  /\ ~fileExists => content = <<>>
  /\ (last.op # "none" /\ ~last.preFile /\ fileExists)
       => (last.op = "save" /\ last.res = "ok")

C13_Witness ==
  /\ last.op = "clear"
  /\ last.res = "ok"
  /\ ~last.preFile
  /\ ~last.preDir

(* C14: the store handler answers stored = true exactly when the save      *)
(* wrote a new line, stored = false exactly when the save was rejected as  *)
(* a duplicate, and fails on every other error of the save.                *)
C14_StoredFlag ==
  last.op = "save" =>
    /\ (last.stored = "true") = (content = last.pre \o <<Body(record(last.text,
                                   last.embedding, last.model, last.category)), NL>>)
    /\ (last.stored = "false") =
         (HasKey(PreEntries, last.text, last.category) /\ content = last.pre)
    /\ (last.stored = "panic") =
         (~HasKey(PreEntries, last.text, last.category) /\ content = last.pre)

C14_Witness ==
  /\ last.op = "save"
  /\ last.stored = "false"
  /\ HasKey(Entries, last.text, last.category)

C14_WitnessFault ==
  /\ last.op = "save"
  /\ last.stored = "panic"
  /\ last.res = "io_error"

(* a compare on a log with a malformed line fails *)
RankFatal ==
  (last.op = "compare" /\ last.preFile /\ ~AllLinesParse(last.pre))
    => last.res # "ok"

(* a compare on a log with a malformed line skips that line: it does not   *)
(* fail because of it and ranks the lines that parse                       *)
RankSkips ==
  (last.op = "compare" /\ last.preFile /\ ~AllLinesParse(last.pre)) =>
    /\ last.res \in {"ok", "no_results"}
    /\ last.filter # None => last.res = "ok"
    /\ \A k \in 1..Len(last.results) :
         HasKey(PreEntries, last.results[k].text, last.results[k].embedding_type)
    /\ (last.filter = None /\ last.top_k # Some(0) /\ PreEntries # <<>>)
         => (last.res = "ok" /\ last.results # <<>>)

(* a save that reads a log with a malformed line fails and writes nothing *)
AppendFatal ==
  (last.op = "save" /\ last.preFile /\ ~AllLinesParse(last.pre))
    => (last.res = "parse_error" /\ content = last.pre)

C16_WitnessAppend ==
  /\ last.op = "save"
  /\ last.preFile
  /\ ~AllLinesParse(last.pre)
  /\ last.res = "parse_error"

(* C17: two concurrent saves of different keys each end up as one complete *)
(* line of their own; no line mixes two records and no line is empty, so   *)
(* the log parses.                                                         *)
C17_Claim ==
  \A p, q \in Procs :
    ( /\ p # q
      /\ procs[p].pc = "done" /\ procs[p].res = "ok"
      /\ procs[q].pc = "done" /\ procs[q].res = "ok"
      /\ <<procs[p].text, procs[p].category>> # <<procs[q].text, procs[q].category>> )
    => /\ AllLinesParse(content)
       /\ HasKey(Entries, procs[p].text, procs[p].category)
       /\ HasKey(Entries, procs[q].text, procs[q].category)

(* at most one result for each (text, category) *)
OnePerKey(rs) ==
  \A k, l \in 1..Len(rs) :
    k # l => <<rs[k].text, rs[k].embedding_type>> # <<rs[l].text, rs[l].embedding_type>>

(* a result's similarity is computed from the first line of its key *)
FromFirstLine(es, rs, query) ==
  \A k \in 1..Len(rs) :
    rs[k].similarity = cosine_similarity(query, es[LogIndex(es, rs[k])].embedding)

(* C18: of several lines with one (text, category) rank considers the      *)
(* first only and emits one result at most for the pair; lines are taken   *)
(* for the same record only when text and category are both equal, so the  *)
(* first line of every other pair is still ranked.                         *)
C18_Claim ==
  (last.op = "compare" /\ last.res = "ok") =>
    /\ OnePerKey(last.results)
    /\ FromFirstLine(PreEntries, last.results, last.embedding)
    /\ last.top_k = None =>
         \A i \in Survivors(PreEntries, last.text, last.filter) :
           HasResult(last.results, PreEntries[i].text, PreEntries[i].embedding_type)

(* the part of C18 about real duplicates: one result for the pair, from   *)
(* its first line                                                          *)
C18_FirstLineOnly ==
  (last.op = "compare" /\ last.res = "ok") =>
    /\ OnePerKey(last.results)
    /\ FromFirstLine(PreEntries, last.results, last.embedding)

C18_Duplicates ==
  /\ last.op = "compare"
  /\ last.res = "ok"
  /\ Len(last.results) = 1
  /\ Len(PreEntries) = 2
  /\ Key(PreEntries[1]) = Key(PreEntries[2])
  /\ PreEntries[1].embedding # PreEntries[2].embedding

(* C19: with a type filter no result has the query's text; without one     *)
(* nothing is excluded as a self-match, so every stored record with the    *)
(* query's text is returned (when top_k does not cut it).                  *)
C19_Claim ==
  (last.op = "compare" /\ last.res = "ok") =>
    /\ last.filter # None =>
         \A k \in 1..Len(last.results) : last.results[k].text # last.text
    /\ (last.filter = None /\ last.top_k = None) =>
         \A i \in 1..Len(PreEntries) :
           PreEntries[i].text = last.text
             => HasResult(last.results, PreEntries[i].text, PreEntries[i].embedding_type)

(* the same with the records that share a seen key with an earlier line    *)
(* left out of the second part                                             *)
C19_ApartFromKeyCollision ==
  (last.op = "compare" /\ last.res = "ok") =>
    /\ last.filter # None =>
         \A k \in 1..Len(last.results) : last.results[k].text # last.text
    /\ (last.filter = None /\ last.top_k = None) =>
         \A i \in 1..Len(PreEntries) :
           ( /\ PreEntries[i].text = last.text
             /\ \A j \in 1..(i - 1) :
                  seen_key(PreEntries[j].text, PreEntries[j].embedding_type)
                    # seen_key(PreEntries[i].text, PreEntries[i].embedding_type) )
             => HasResult(last.results, PreEntries[i].text, PreEntries[i].embedding_type)

IsPrefix(s, t) == Len(s) <= Len(t) /\ SubSeq(t, 1, Len(s)) = s

(* C20: a successful append keeps the old log as a prefix of the new log,  *)
(* every old line unchanged and in place, and adds exactly one line after  *)
(* them; a failed append and every rank call leave the log as it was.      *)
C20_AppendOnlyFrame ==
  /\ (last.op = "save" /\ last.res = "ok") =>
       /\ IsPrefix(last.pre, content)
       /\ IsPrefix(lines(last.pre), lines(content))
       /\ Len(lines(content)) = Len(lines(last.pre)) + 1
       /\ fileExists
  /\ (last.op = "save" /\ last.res # "ok") =>
       content = last.pre /\ fileExists = last.preFile
  /\ last.op = "compare" =>
       content = last.pre /\ fileExists = last.preFile

(* a successful append onto a log that already holds a line *)
C20_Witness ==
  /\ last.op = "save" /\ last.res = "ok"
  /\ Len(lines(last.pre)) >= 1
  /\ content # last.pre

(* an append refused by a line that does not parse, the log untouched *)
C20_WitnessReadError ==
  last.op = "save" /\ last.res = "parse_error" /\ Len(last.pre) > 0

(* what a compare call returns on the file system <<file, c>> *)
RankOn(file, c, text, embedding, top_k, include_embeddings, embedding_type) ==
  LET res == compare_result(file, c, text, embedding, top_k, include_embeddings,
                            embedding_type)
  IN  [res |-> res,
       results |-> IF res = "ok"
                   THEN ranked(c, text, embedding, top_k, include_embeddings,
                               embedding_type)
                   ELSE <<>>]

Overlapping(p) == procs[p].pc \in {"read", "open", "write", "newline"}

(* the log as store request p found it, seen from the moment of the read   *)
(* <<file, c>> of an overlapping compare                                   *)
FileBefore(p, file) ==
  IF procs[p].pc \in {"write", "newline"} THEN procs[p].file_exists ELSE file

LogBefore(p, c) ==
  IF procs[p].pc = "newline" THEN SubSeq(c, 1, Len(c) - 1) ELSE c

(* the log as store request p will leave it *)
WillWrite(p, file, c) ==
  \/ procs[p].pc \in {"write", "newline"}
  \/ /\ procs[p].pc \in {"read", "open"}
     /\ save_result(dirExists, file, c, procs[p].text, procs[p].category) = "ok"

FileAfter(p, file, c) == file \/ WillWrite(p, file, c)

LogAfter(p, c, file) ==
  IF ~WillWrite(p, file, c) THEN c
  ELSE IF procs[p].pc = "newline" THEN Append(c, NL)
  ELSE written(c, procs[p].text, procs[p].embedding, procs[p].model,
               procs[p].category)

CompareOutcome == [res |-> last.res, results |-> last.results]

RankBefore(p) ==
  RankOn(FileBefore(p, last.preFile), LogBefore(p, last.pre), last.text,
         last.embedding, last.top_k, last.include, last.filter)

RankAfter(p) ==
  RankOn(FileAfter(p, last.preFile, last.pre), LogAfter(p, last.pre, last.preFile),
         last.text, last.embedding, last.top_k, last.include, last.filter)

(* C21: a compare that overlaps one store request leaves the log as it is  *)
(* and returns what the same compare returns on the log before the store   *)
(* request or on the log after it.                                         *)
C21_Claim ==
  (last.op = "compare" /\ Overlapping(Writer)) =>
    /\ content = last.pre /\ fileExists = last.preFile
    /\ CompareOutcome \in {RankBefore(Writer), RankAfter(Writer)}

(* the same for store requests that found the log file in place *)
C21_WhenLogExisted ==
  (last.op = "compare" /\ Overlapping(Writer) /\ FileBefore(Writer, last.preFile)) =>
    /\ content = last.pre /\ fileExists = last.preFile
    /\ CompareOutcome \in {RankBefore(Writer), RankAfter(Writer)}

(* a compare that read the record text before its newline was written and  *)
(* ranked it                                                               *)
C21_ReadBetweenWrites ==
  /\ last.op = "compare" /\ last.res = "ok"
  /\ procs[Writer].pc = "newline"
  /\ FileBefore(Writer, last.preFile)
  /\ RankBefore(Writer) # RankAfter(Writer)
  /\ CompareOutcome = RankAfter(Writer)

(* C22: clear removes the log file and returns ok; it removes the log's    *)
(* directory exactly when nothing else is in it once the log is gone, and  *)
(* a directory that holds another entry stays, with that entry.            *)
C22_ClearDirectory ==
  /\ last.op = "clear" =>
       /\ last.res = "ok"
       /\ ~fileExists
       /\ dirExists = (last.preDir /\ otherEntries)
  /\ otherEntries => dirExists

(* clear removed the log and then the directory it had emptied *)
C22_Witness ==
  /\ last.op = "clear" /\ last.res = "ok"
  /\ last.preFile /\ last.preDir
  /\ ~otherEntries /\ ~dirExists

(* clear removed the log and kept the directory for its other entry *)
C22_WitnessKept ==
  /\ last.op = "clear" /\ last.res = "ok"
  /\ last.preFile /\ last.preDir
  /\ otherEntries /\ dirExists /\ ~fileExists

(* a result without its vector: which record, how similar *)
Match(r) == <<r.text, r.embedding_type, r.similarity>>
Matches(rs) == [k \in 1..Len(rs) |-> Match(rs[k])]

(* the same compare call with include_embeddings the other way round *)
OtherInclusion ==
  RankOn(last.preFile, last.pre, last.text, last.embedding, last.top_k,
         ~last.include, last.filter)

(* C23: with include_embeddings every result carries the vector of the     *)
(* record it matched; without it the result has no embedding key at all;   *)
(* the flag changes neither the records returned, nor their similarities,  *)
(* nor their order.                                                        *)
C23_VectorInclusion ==
  last.op = "compare" =>
    /\ \A k \in 1..Len(last.results) :
         LET r == last.results[k]
             json == serialize(r)
         IN  IF last.include
             THEN /\ "embedding" \in DOMAIN json
                  /\ json.embedding = PreEntries[LogIndex(PreEntries, r)].embedding
             ELSE "embedding" \notin DOMAIN json
    /\ OtherInclusion.res = last.res
    /\ Matches(OtherInclusion.results) = Matches(last.results)

(* two results, each with its own stored vector *)
C23_Witness ==
  /\ last.op = "compare" /\ last.res = "ok" /\ last.include
  /\ Len(last.results) = 2
  /\ last.results[1].embedding # last.results[2].embedding

(* a result returned without its vector *)
C23_WitnessOmitted ==
  /\ last.op = "compare" /\ last.res = "ok" /\ ~last.include
  /\ Len(last.results) >= 1
  /\ DOMAIN serialize(last.results[1]) = {"text", "similarity", "embedding_type"}

====
